---- MODULE Spec2Model ----
(***************************************************************************)
(* Model of scripts/generate-embeddings.py: the generate and restore       *)
(* pipelines over the gwas_catalog and study_embeddings tables of one      *)
(* database (PostgreSQL or SQLite) and the local .npz cache file.          *)
(*                                                                         *)
(* Strings are sequences of one-character strings, so that split('|'),     *)
(* strip() and || are computed character by character.  Key columns are    *)
(* taken to be NOT NULL (the schema is not part of the script).            *)
(***************************************************************************)
EXTENDS Integers, Sequences, FiniteSets, TLC

\* ------------------------------------------------------------------ bounds
MaxCatalog == 3     \* rows of gwas_catalog
MaxRuns    == 2     \* invocations of the script in one behaviour
MaxLimit   == 2     \* largest --limit tried
MaxUpload  == 2     \* largest --upload-batch-size tried
NativeDim  == 3     \* width of the vectors model.encode returns (768, scaled)
MaxDim     == 3     \* largest --dimensions tried

\* chunk_size of the PostgreSQL branch (10000 in the script), scaled to the
\* size of the catalogs explored here so that a run has several chunks.
chunk_size == 2

\* ----------------------------------------------------------------- strings
NULL == <<"\\N">>                 \* SQL NULL, distinct from every string
SP   == <<" ">>
PIPE == <<"|">>

G1  == <<"G", "1">>
G2  == <<"G", "2">>
RS1 == <<"r", "1">>
AA  == <<"A">>
TT  == <<"T">>

K1 == <<G1, RS1, AA>>
K2 == <<G1, RS1, TT>>
K3 == <<G2, RS1, AA>>

Rec(k, mt, dt, st, mg) ==
    [study_accession |-> k[1], snps |-> k[2], strongest_snp_risk_allele |-> k[3],
     mapped_trait |-> mt, disease_trait |-> dt, study |-> st, mapped_gene |-> mg]

\* The rows gwas_catalog is drawn from.  R1 and R3 share the natural key K1
\* and differ in text; R1 and R4 have texts that differ only in outer blanks.
R1 == Rec(K1, <<"b">>, NULL, NULL, NULL)
R2 == Rec(K2, NULL, <<"d">>, NULL, <<"g">>)
R3 == Rec(K1, <<"b">>, <<"d">>, NULL, NULL)
R4 == Rec(K3, NULL, NULL, NULL, <<"b">>)
RecordPool == {R1, R2, R3, R4}

InjectiveSeqs(S, n) ==
    UNION {{s \in [1..m -> S] : \A a, b \in 1..m : a # b => s[a] # s[b]} : m \in 0..n}

Min(a, b) == IF a < b THEN a ELSE b

\* ------------------------------------------------------------ fetch_studies
COALESCE(f, d) == IF f = NULL THEN d ELSE f

combined_text(gc) ==
    COALESCE(gc.mapped_trait, <<>>) \o SP \o
    COALESCE(gc.disease_trait, <<>>) \o SP \o
    COALESCE(gc.study, <<>>) \o SP \o
    COALESCE(gc.mapped_gene, <<>>)

\* The ON clause of the LEFT JOIN: equality on all three key columns.
JoinOnWrong(se, gc) ==
    /\ se.study_accession = gc.study_accession
    /\ se.snps = gc.snps

JoinOn(se, gc) ==
    /\ se.study_accession = gc.study_accession
    /\ se.snps = gc.snps
    /\ se.strongest_snp_risk_allele = gc.strongest_snp_risk_allele

UnmatchedAlways(gc, se_table) == TRUE

\* WHERE se.study_accession IS NULL: the catalog row found no partner.
Unmatched(gc, se_table) == ~ \E se \in se_table : JoinOn(se, gc)

StudyTuple(gc) ==
    <<gc.study_accession, gc.snps, gc.strongest_snp_risk_allele, combined_text(gc)>>

RECURSIVE AntiJoin(_, _)
AntiJoin(gc_rows, se_table) ==
    IF gc_rows = <<>> THEN <<>>
    ELSE LET rest == AntiJoin(Tail(gc_rows), se_table)
         IN  IF Unmatched(Head(gc_rows), se_table)
             THEN <<StudyTuple(Head(gc_rows))>> \o rest
             ELSE rest

fetch_studies_limit_first(gc_rows, se_table, limit) ==
    AntiJoin(IF limit # 0 THEN SubSeq(gc_rows, 1, Min(limit, Len(gc_rows))) ELSE gc_rows,
             se_table)

\* limit = 0 stands for both None and 0: "if limit:" is false for either.
\* Rows come back in the scan order of gwas_catalog (there is no ORDER BY).
fetch_studies(gc_rows, se_table, limit) ==
    LET all == AntiJoin(gc_rows, se_table)
    IN  IF limit # 0 THEN SubSeq(all, 1, Min(limit, Len(all))) ELSE all

\* ------------------------------------------------------ generate_embeddings
IsSpace(c) == c = " "

RECURSIVE lstrip(_)
lstrip(s) == IF s # <<>> /\ IsSpace(Head(s)) THEN lstrip(Tail(s)) ELSE s

RECURSIVE rstrip(_)
rstrip(s) ==
    IF s # <<>> /\ IsSpace(s[Len(s)]) THEN rstrip(SubSeq(s, 1, Len(s) - 1)) ELSE s

strip(s) == rstrip(lstrip(s))

TaskPrefix ==
    <<"s", "e", "a", "r", "c", "h", "_", "d", "o", "c", "u", "m", "e", "n", "t", ":", " ">>

prefixed_text(text) == TaskPrefix \o strip(text)

CharCode(c) ==
    CASE c = " " -> 1 [] c = "b" -> 2 [] c = "d" -> 3 [] c = "g" -> 4 [] OTHER -> 5

RECURSIVE TextHash(_)
TextHash(s) ==
    IF s = <<>> THEN 0
    ELSE (TextHash(SubSeq(s, 1, Len(s) - 1)) * 3 + CharCode(s[Len(s)])) % 7

\* model.encode on one text: some fixed function of the text into vectors of
\* the native width, with one-digit components.
encode(s) == [j \in 1..NativeDim |-> (TextHash(s) + j * j) % 10]

truncate_bad(emb, dimensions) ==
    IF dimensions < Len(emb) THEN SubSeq(emb, Len(emb) - dimensions + 1, Len(emb)) ELSE emb

\* embeddings[:, :dimensions] when dimensions < embeddings.shape[1]
truncate(emb, dimensions) ==
    IF dimensions < Len(emb) THEN SubSeq(emb, 1, dimensions) ELSE emb

generate_embeddings(texts, dimensions) ==
    [n \in 1..Len(texts) |-> truncate(encode(prefixed_text(texts[n])), dimensions)]

\* --------------------------------------------------------------- json.dumps
Digit(n) ==
    CASE n = 0 -> "0" [] n = 1 -> "1" [] n = 2 -> "2" [] n = 3 -> "3" [] n = 4 -> "4"
      [] n = 5 -> "5" [] n = 6 -> "6" [] n = 7 -> "7" [] n = 8 -> "8" [] OTHER -> "9"

RECURSIVE NumStr(_)
NumStr(n) == IF n < 10 THEN <<Digit(n)>> ELSE NumStr(n \div 10) \o <<Digit(n % 10)>>

RECURSIVE JoinItems(_, _)
JoinItems(list, sep) ==
    IF list = <<>> THEN <<>>
    ELSE IF Len(list) = 1 THEN NumStr(list[1])
    ELSE NumStr(list[1]) \o sep \o JoinItems(Tail(list), sep)

json_dumps(list, item_separator) == <<"[">> \o JoinItems(list, item_separator) \o <<"]">>

\* separators=(',', ':') in the PostgreSQL branch, the default ', ' in SQLite's
ItemSep(db) == IF db = "postgres" THEN <<",">> ELSE <<",", " ">>

\* ------------------------------------------------------ study_embeddings
KeyOf(row) == <<row.study_accession, row.snps, row.strongest_snp_risk_allele>>

Row(k, embedding_json, created, updated) ==
    [study_accession |-> k[1], snps |-> k[2], strongest_snp_risk_allele |-> k[3],
     embedding |-> embedding_json, created_at |-> created, updated_at |-> updated]

\* zip(composite_keys, embeddings): as many pairs as the shorter one has
Zip(keys, embs) == [n \in 1..Min(Len(keys), Len(embs)) |-> <<keys[n], embs[n]>>]

\* (study_acc, snps, risk_allele, embedding_json) of the PostgreSQL branch
pg_tuple(pair) ==
    <<pair[1][1], pair[1][2], pair[1][3], json_dumps(pair[2], ItemSep("postgres"))>>

\* (study_acc, snps, risk_allele, json, json) of the SQLite branch: the first
\* json is the inserted embedding, the second the one SET on a conflict
sqlite_tuple(pair) ==
    <<pair[1][1], pair[1][2], pair[1][3],
      json_dumps(pair[2], ItemSep("sqlite")), json_dumps(pair[2], ItemSep("sqlite"))>>

TupleKey(d) == <<d[1], d[2], d[3]>>

InsertBlind(table, d, t) == table \cup {Row(TupleKey(d), d[4], t, t)}

\* INSERT ... VALUES (.., NOW(), NOW()) ON CONFLICT (key) DO NOTHING
InsertDoNothing(table, d, t) ==
    IF \E r \in table : KeyOf(r) = TupleKey(d)
    THEN table
    ELSE table \cup {Row(TupleKey(d), d[4], t, t)}

UpsertKeepOld(table, d, t) == InsertDoNothing(table, d, t)

\* INSERT ... ON CONFLICT(key) DO UPDATE SET embedding = ?, updated_at = now
UpsertDoUpdate(table, d, t) ==
    IF \E r \in table : KeyOf(r) = TupleKey(d)
    THEN {IF KeyOf(r) = TupleKey(d)
          THEN [r EXCEPT !.embedding = d[5], !.updated_at = t]
          ELSE r : r \in table}
    ELSE table \cup {Row(TupleKey(d), d[4], t, t)}

\* execute_values(cursor, INSERT ..., chunk): one statement for the chunk
RECURSIVE execute_values(_, _, _)
execute_values(table, chunk, t) ==
    IF chunk = <<>> THEN table
    ELSE execute_values(InsertDoNothing(table, Head(chunk), t), Tail(chunk), t)

\* cursor.executemany(INSERT ..., batch_data): one statement per row
RECURSIVE executemany(_, _, _)
executemany(table, batch_data, t) ==
    IF batch_data = <<>> THEN table
    ELSE executemany(UpsertDoUpdate(table, Head(batch_data), t), Tail(batch_data), t)

\* a[i:i+n] of Python, for a 0-based i
Slice(a, i, n) == SubSeq(a, i + 1, Min(i + n, Len(a)))

\* ------------------------------------------------------------ local cache
\* A file is a record with one field per array stored in the archive; a path
\* with no file holds NoFile.
NoFile == [missing |-> TRUE]

Exists(file) == "missing" \notin DOMAIN file

\* np.savez_compressed(filepath, study_accessions=.., snps=.., risk_alleles=..,
\*                     embeddings=.., dimensions=embeddings.shape[1])
npz_of(composite_keys, embeddings) ==
    [study_accessions |-> [n \in 1..Len(composite_keys) |-> composite_keys[n][1]],
     snps             |-> [n \in 1..Len(composite_keys) |-> composite_keys[n][2]],
     risk_alleles     |-> [n \in 1..Len(composite_keys) |-> composite_keys[n][3]],
     embeddings       |-> embeddings,
     dimensions       |-> Len(embeddings[1])]

\* key.split('|')
RECURSIVE split(_, _)
split(s, sep) ==
    IF \E n \in 1..Len(s) : s[n] = sep
    THEN LET n == CHOOSE m \in 1..Len(s) :
                      s[m] = sep /\ \A l \in 1..(m - 1) : s[l] # sep
         IN  <<SubSeq(s, 1, n - 1)>> \o split(SubSeq(s, n + 1, Len(s)), sep)
    ELSE <<s>>

\* zip(study_accessions, snps, risk_alleles)
Zip3(a, b, c) == [n \in 1..Min(Len(a), Min(Len(b), Len(c))) |-> <<a[n], b[n], c[n]>>]

FirstBadKeyFewer(study_keys) ==
    IF \E n \in 1..Len(study_keys) : Len(split(study_keys[n], "|")) < 3
    THEN CHOOSE n \in 1..Len(study_keys) :
             /\ Len(split(study_keys[n], "|")) < 3
             /\ \A m \in 1..(n - 1) : Len(split(study_keys[m], "|")) >= 3
    ELSE 0

\* The loop over study_keys: the triples up to the first key that does not
\* split in three, and that key.
FirstBadKey(study_keys) ==
    IF \E n \in 1..Len(study_keys) : Len(split(study_keys[n], "|")) # 3
    THEN CHOOSE n \in 1..Len(study_keys) :
             /\ Len(split(study_keys[n], "|")) # 3
             /\ \A m \in 1..(n - 1) : Len(split(study_keys[m], "|")) = 3
    ELSE 0

Failure(kind, what) ==
    [ok |-> FALSE, error |-> kind, about |-> what, composite_keys |-> <<>>, embeddings |-> <<>>]

Loaded(keys, embs) ==
    [ok |-> TRUE, error |-> "", about |-> <<>>, composite_keys |-> keys, embeddings |-> embs]

decode_current(data) ==
    Loaded(Zip3(data.study_accessions, data.snps, data.risk_alleles), data.embeddings)

decode_legacy(data) ==
    LET bad == FirstBadKey(data.study_keys)
    IN  IF bad # 0
        THEN Failure("ValueError: Invalid study_key format", data.study_keys[bad])
        ELSE Loaded([n \in 1..Len(data.study_keys) |->
                        LET parts == split(data.study_keys[n], "|")
                        IN  <<parts[1], parts[2], parts[3]>>],
                    data.embeddings)

detect_current_first(data) ==
    IF "study_accessions" \in DOMAIN data THEN decode_current(data)
    ELSE IF "study_keys" \in DOMAIN data THEN decode_legacy(data)
    ELSE Failure("ValueError: Invalid file format", <<>>)

\* if 'study_keys' in data: ... elif 'study_accessions' in data: ... else: raise
detect_format(data) ==
    IF "study_keys" \in DOMAIN data THEN decode_legacy(data)
    ELSE IF "study_accessions" \in DOMAIN data THEN decode_current(data)
    ELSE Failure("ValueError: Invalid file format", <<>>)

load_embeddings_from_file(data) ==
    IF ~ Exists(data) THEN Failure("FileNotFoundError", <<>>)
    ELSE IF "embeddings" \notin DOMAIN data THEN Failure("KeyError", <<"embeddings">>)
    ELSE IF "dimensions" \notin DOMAIN data THEN Failure("KeyError", <<"dimensions">>)
    ELSE detect_format(data)

\* ------------------------------------------------------------------ state
VARIABLES
    db_type,           \* 'postgres' when POSTGRES_DB is set, else 'sqlite'
    gwas_catalog,      \* the rows of gwas_catalog, in scan order
    study_embeddings,  \* the committed rows of study_embeddings
    session,           \* study_embeddings as the open connection sees it
    tx_start,          \* PostgreSQL: when the open transaction began (0: none)
    now,               \* the wall clock
    disk,              \* path -> file
    pc,                \* where main is
    runs,              \* invocations started so far
    args,              \* the parsed arguments main has read so far
    exit_code,         \* status of the last sys.exit (-1: none yet)
    log,               \* the core stages this run started, with their outcome
    studies,           \* result of fetch_studies
    composite_keys,
    embeddings,
    i,                 \* start of the chunk being uploaded
    pre,               \* study_embeddings when this run started
    prev,              \* the command of the previous run if that was a generate
                       \* run that exited with status 0, else NoRun
    failed             \* what the previous run had fetched, its --limit and what
                       \* it had committed, if that was a generate run that
                       \* failed in store_embeddings; else empty

vars == <<db_type, gwas_catalog, study_embeddings, session, tx_start, now, disk, pc,
          runs, args, exit_code, log, studies, composite_keys, embeddings, i, pre, prev,
          failed>>

\* ------------------------------------------------------------- environment
\* A row that may be in study_embeddings before the first run
OldRow(k) == Row(k, json_dumps(<<9, 9>>, <<",">>), 0, 0)
InitialRows == {OldRow(K1)}

V1 == <<1, 2>>
V2 == <<3, 4>>

CurrentFile ==
    [study_accessions |-> <<G1, G1>>, snps |-> <<RS1, RS1>>, risk_alleles |-> <<AA, TT>>,
     embeddings |-> <<V1, V2>>, dimensions |-> 2]
LegacyFile ==
    [study_keys |-> <<G1 \o PIPE \o RS1 \o PIPE \o AA, G2 \o PIPE \o RS1 \o PIPE \o AA>>,
     embeddings |-> <<V2, V1>>, dimensions |-> 2]
\* both markers, the legacy keys well formed
BothFile ==
    [study_keys |-> <<G2 \o PIPE \o RS1 \o PIPE \o AA>>,
     study_accessions |-> <<G1>>, snps |-> <<RS1>>, risk_alleles |-> <<TT>>,
     embeddings |-> <<V1>>, dimensions |-> 2]
\* both markers, a legacy key with one delimiter only
BothBadFile ==
    [study_keys |-> <<G2 \o PIPE \o RS1>>,
     study_accessions |-> <<G1>>, snps |-> <<RS1>>, risk_alleles |-> <<TT>>,
     embeddings |-> <<V1>>, dimensions |-> 2]
\* legacy keys with four and with two parts after a good one
BadLegacyFile ==
    [study_keys |-> <<G1 \o PIPE \o RS1 \o PIPE \o AA,
                      G1 \o PIPE \o RS1 \o PIPE \o AA \o PIPE \o TT, G1 \o PIPE \o RS1>>,
     embeddings |-> <<V1, V2, V1>>, dimensions |-> 2]
NoMarkerFile == [embeddings |-> <<V1>>, dimensions |-> 2]
\* the same key twice with different vectors
DupFile ==
    [study_accessions |-> <<G1, G2, G1>>, snps |-> <<RS1, RS1, RS1>>,
     risk_alleles |-> <<AA, AA, AA>>, embeddings |-> <<V1, V1, V2>>, dimensions |-> 2]
\* fewer vectors than keys
ShortFile ==
    [study_accessions |-> <<G1, G1>>, snps |-> <<RS1, RS1>>, risk_alleles |-> <<AA, TT>>,
     embeddings |-> <<V1>>, dimensions |-> 2]

SavePaths == {"backup.npz", "backup"}
Paths == {"current.npz", "legacy.npz", "both.npz", "bothbad.npz", "badlegacy.npz",
          "nomarker.npz", "dup.npz", "short.npz", "gone.npz"} \cup SavePaths

InitialDisk ==
    [p \in Paths |->
        CASE p = "current.npz"   -> CurrentFile
          [] p = "legacy.npz"    -> LegacyFile
          [] p = "both.npz"      -> BothFile
          [] p = "bothbad.npz"   -> BothBadFile
          [] p = "badlegacy.npz" -> BadLegacyFile
          [] p = "nomarker.npz"  -> NoMarkerFile
          [] p = "dup.npz"       -> DupFile
          [] p = "short.npz"     -> ShortFile
          [] OTHER               -> NoFile]

None == "None"

NoArgs == [load_local |-> None, limit |-> 0,
           dimensions |-> 0, upload_batch_size |-> 0]

NoRun == "other"

Mode == IF args.load_local # None THEN "restore" ELSE "generate"

Init ==
    /\ db_type \in {"postgres", "sqlite"}
    /\ gwas_catalog \in InjectiveSeqs(RecordPool, MaxCatalog)
    /\ study_embeddings \in SUBSET InitialRows
    /\ session = study_embeddings
    /\ tx_start = 0
    /\ now = 1
    /\ disk = InitialDisk
    /\ pc = "start"
    /\ runs = 0
    /\ args = NoArgs
    /\ exit_code = -1
    /\ log = <<>>
    /\ studies = <<>>
    /\ composite_keys = <<>>
    /\ embeddings = <<>>
    /\ i = 0
    /\ pre = study_embeddings
    /\ prev = NoRun
    /\ failed = <<>>

\* ------------------------------------------------------------------- main
\* The command line is parsed once and never changes; each argument is drawn
\* where main first reads it.
\* To keep the exploration finite and small, only the last run of a behaviour
\* varies --dimensions and uses --save-local; earlier runs keep the widest
\* dimension and save nothing.
LastRun       == runs = MaxRuns
Limits        == 0..MaxLimit
UploadSizes   == 1..MaxUpload
DimChoices    == IF LastRun THEN 2..MaxDim ELSE {MaxDim}

Logged(stage, outcome) == Append(log, <<stage, outcome>>)

Finished(outcome) == [log EXCEPT ![Len(log)] = <<log[Len(log)][1], outcome>>]

\* sys.exit(code), or falling off the end of main with code 0; the connection,
\* if any, is closed and what it had not committed is gone.
Exit(code) ==
    /\ pc' = "exited"
    /\ exit_code' = code
    /\ session' = study_embeddings
    /\ tx_start' = 0

\* A new process: python scripts/generate-embeddings.py [--load-local path],
\* started when the clock shows the same second as before or a later one
StartRun(load_local) ==
    /\ pc \in {"start", "exited"}
    /\ runs < MaxRuns
    /\ runs' = runs + 1
    /\ now' \in IF pc = "start" THEN {now} ELSE {now, now + 1}
    /\ args' = [NoArgs EXCEPT !.load_local = load_local]
    /\ prev' = IF pc = "exited" /\ Mode = "generate" /\ exit_code = 0
               THEN (IF args.limit = 0 THEN "generate" ELSE "generate --limit")
               ELSE NoRun
    /\ failed' = IF pc = "exited" /\ Mode = "generate" /\ log # <<>>
                    /\ log[Len(log)] = <<"store", "failed">>
                 THEN <<[studies |-> studies, limit |-> args.limit,
                         committed |-> IF db_type = "sqlite" THEN i ELSE 0]>>
                 ELSE <<>>
    /\ pre' = study_embeddings
    /\ pc' = IF load_local # None THEN "load" ELSE "connect"
    /\ exit_code' = -1
    /\ log' = <<>>
    /\ studies' = <<>>
    /\ composite_keys' = <<>>
    /\ embeddings' = <<>>
    /\ i' = 0
    /\ UNCHANGED <<db_type, gwas_catalog, study_embeddings, session, tx_start, disk>>

StartGenerate == StartRun(None)

StartRestore == \E path \in Paths : StartRun(path)

\* restore mode: composite_keys, embeddings = load_embeddings_from_file(path)
LoadLocal ==
    /\ pc = "load"
    /\ LET r == load_embeddings_from_file(disk[args.load_local])
       IN  IF r.ok
           THEN /\ composite_keys' = r.composite_keys
                /\ embeddings' = r.embeddings
                /\ log' = Logged("load", "ok")
                /\ pc' = "connect"
                /\ UNCHANGED <<exit_code, session, tx_start>>
           ELSE /\ log' = Logged("load", "failed")
                /\ Exit(1)
                /\ UNCHANGED <<composite_keys, embeddings>>
    /\ UNCHANGED <<db_type, gwas_catalog, study_embeddings, now, disk, runs, args,
                   studies, i, pre, prev, failed>>

ConnectOkThenModel ==
    /\ pc = "connect"
    /\ log' = Logged("connect", "ok")
    /\ pc' = "model"
    /\ UNCHANGED <<db_type, gwas_catalog, study_embeddings, session, tx_start, now, disk,
                   runs, args, exit_code, studies, composite_keys, embeddings, i, pre,
                   prev, failed>>

\* conn, db_type = get_db_connection(postgres_conn_str)
ConnectOk ==
    /\ pc = "connect"
    /\ log' = Logged("connect", "ok")
    /\ pc' = IF Mode = "restore" THEN "store" ELSE "model"
    /\ UNCHANGED <<db_type, gwas_catalog, study_embeddings, session, tx_start, now, disk,
                   runs, args, exit_code, studies, composite_keys, embeddings, i, pre,
                   prev, failed>>

ConnectFail ==
    /\ pc = "connect"
    /\ log' = Logged("connect", "failed")
    /\ Exit(1)
    /\ UNCHANGED <<db_type, gwas_catalog, study_embeddings, now, disk, runs, args,
                   studies, composite_keys, embeddings, i, pre, prev, failed>>

\* model = SentenceTransformer('nomic-ai/nomic-embed-text-v1.5', ...)
LoadModelOk ==
    /\ pc = "model"
    /\ log' = Logged("model", "ok")
    /\ pc' = "fetch"
    /\ UNCHANGED <<db_type, gwas_catalog, study_embeddings, session, tx_start, now, disk,
                   runs, args, exit_code, studies, composite_keys, embeddings, i, pre,
                   prev, failed>>

LoadModelFail ==
    /\ pc = "model"
    /\ log' = Logged("model", "failed")
    /\ Exit(1)
    /\ UNCHANGED <<db_type, gwas_catalog, study_embeddings, now, disk, runs, args,
                   studies, composite_keys, embeddings, i, pre, prev, failed>>

\* studies = fetch_studies(conn, db_type, limit=args.limit); exit 0 when empty;
\* composite_keys = [(s[0], s[1], s[2]) for s in studies]
FetchOk ==
    /\ pc = "fetch"
    /\ \E limit \in Limits :
        LET found == fetch_studies(gwas_catalog, session, limit)
        IN  /\ args' = [args EXCEPT !.limit = limit]
            /\ studies' = found
            /\ log' = Logged("fetch", "ok")
            /\ IF found = <<>>
               THEN /\ Exit(0)
                    /\ UNCHANGED composite_keys
               ELSE /\ pc' = "generate"
                    /\ composite_keys' = [n \in 1..Len(found) |->
                                             <<found[n][1], found[n][2], found[n][3]>>]
                    /\ tx_start' = IF db_type = "postgres" THEN now ELSE 0
                    /\ UNCHANGED <<exit_code, session>>
    /\ UNCHANGED <<db_type, gwas_catalog, study_embeddings, now, disk, runs,
                   embeddings, i, pre, prev, failed>>

FetchFailContinues ==
    /\ pc = "fetch"
    /\ log' = Logged("fetch", "failed")
    /\ pc' = "generate"
    /\ UNCHANGED <<db_type, gwas_catalog, study_embeddings, session, tx_start, now, disk,
                   runs, args, exit_code, studies, composite_keys, embeddings, i, pre,
                   prev, failed>>

FetchFail ==
    /\ pc = "fetch"
    /\ log' = Logged("fetch", "failed")
    /\ Exit(1)
    /\ UNCHANGED <<db_type, gwas_catalog, study_embeddings, now, disk, runs, args,
                   studies, composite_keys, embeddings, i, pre, prev, failed>>

\* texts = [s[3] for s in studies]; embeddings = generate_embeddings(...)
GenerateOk ==
    /\ pc = "generate"
    /\ \E dimensions \in DimChoices :
        /\ args' = [args EXCEPT !.dimensions = dimensions]
        /\ embeddings' = generate_embeddings([n \in 1..Len(studies) |-> studies[n][4]],
                                             dimensions)
    /\ log' = Logged("vectorize", "ok")
    /\ pc' = "save"
    /\ UNCHANGED <<db_type, gwas_catalog, study_embeddings, session, tx_start, now, disk,
                   runs, exit_code, studies, composite_keys, i, pre, prev, failed>>

GenerateFailFlushes ==
    /\ pc = "generate"
    /\ log' = Logged("vectorize", "failed")
    /\ study_embeddings' =
          InsertDoNothing(study_embeddings,
                          pg_tuple(<<composite_keys[1], truncate(encode(<<>>), MaxDim)>>), now)
    /\ pc' = "exited"
    /\ exit_code' = 1
    /\ session' = study_embeddings'
    /\ tx_start' = 0
    /\ UNCHANGED <<db_type, gwas_catalog, now, disk, runs, args,
                   studies, composite_keys, embeddings, i, pre, prev, failed>>

GenerateFail ==
    /\ pc = "generate"
    /\ log' = Logged("vectorize", "failed")
    /\ Exit(1)
    /\ UNCHANGED <<db_type, gwas_catalog, study_embeddings, now, disk, runs, args,
                   studies, composite_keys, embeddings, i, pre, prev, failed>>

\* np.savez_compressed appends '.npz' to a path that does not end in it
NpzPath(path) == IF path = "backup" THEN "backup.npz" ELSE path

\* if args.save_local: (not given)
SkipSave ==
    /\ pc = "save"
    /\ pc' = "store"
    /\ UNCHANGED <<db_type, gwas_catalog, study_embeddings, session, tx_start, now, disk,
                   runs, args, exit_code, log, studies, composite_keys, embeddings, i,
                   pre, prev, failed>>

\* save_embeddings_to_file(args.save_local, composite_keys, embeddings): the
\* archive is written, then os.path.getsize(filepath) raises when filepath
\* itself is not there; main catches whatever is raised and goes on.
SaveWritten ==
    /\ pc = "save"
    /\ LastRun
    /\ \E path \in SavePaths :
        LET written == [disk EXCEPT ![NpzPath(path)] = npz_of(composite_keys, embeddings)]
        IN  /\ disk' = written
            /\ log' = Logged("save", IF Exists(written[path]) THEN "ok" ELSE "failed")
    /\ pc' = "store"
    /\ UNCHANGED <<db_type, gwas_catalog, study_embeddings, session, tx_start, now,
                   runs, args, exit_code, studies, composite_keys, embeddings, i, pre,
                   prev, failed>>

SaveFailAborts ==
    /\ pc = "save"
    /\ LastRun
    /\ log' = Logged("save", "failed")
    /\ Exit(1)
    /\ UNCHANGED <<db_type, gwas_catalog, study_embeddings, now, disk, runs, args,
                   studies, composite_keys, embeddings, i, pre, prev, failed>>

\* np.savez_compressed itself raises (disk full, no such directory)
SaveFail ==
    /\ pc = "save"
    /\ LastRun
    /\ log' = Logged("save", "failed")
    /\ pc' = "store"
    /\ UNCHANGED <<db_type, gwas_catalog, study_embeddings, session, tx_start, now, disk,
                   runs, args, exit_code, studies, composite_keys, embeddings, i, pre,
                   prev, failed>>

\* ---------------------------------------------------------- store_embeddings
\* store_embeddings(conn, db_type, composite_keys, embeddings,
\*                  batch_size=args.upload_batch_size) is entered
StoreBegin ==
    /\ pc = "store"
    /\ \E b \in UploadSizes : args' = [args EXCEPT !.upload_batch_size = b]
    /\ i' = 0
    /\ log' = Logged("store", "started")
    /\ pc' = "upload"
    /\ UNCHANGED <<db_type, gwas_catalog, study_embeddings, session, tx_start, now, disk,
                   runs, exit_code, studies, composite_keys, embeddings, pre, prev, failed>>

\* PostgreSQL: data_tuples, one per pair of zip(composite_keys, embeddings)
data_tuples ==
    LET pairs == Zip(composite_keys, embeddings)
    IN  [n \in 1..Len(pairs) |-> pg_tuple(pairs[n])]

batch_data_from_zero(start, batch_size) ==
    LET pairs == Zip(Slice(composite_keys, start, batch_size),
                     Slice(embeddings, 0, batch_size))
    IN  [n \in 1..Len(pairs) |-> sqlite_tuple(pairs[n])]

\* SQLite: batch_data of the chunk that starts at i
batch_data(start, batch_size) ==
    LET pairs == Zip(Slice(composite_keys, start, batch_size),
                     Slice(embeddings, start, batch_size))
    IN  [n \in 1..Len(pairs) |-> sqlite_tuple(pairs[n])]

\* Where the upload loop ends: len(data_tuples) for PostgreSQL, total for SQLite
Total == IF db_type = "postgres" THEN Len(data_tuples) ELSE Len(composite_keys)

PgStepCommitting(size) ==
    LET began == IF tx_start = 0 THEN now ELSE tx_start
        sent  == execute_values(session, Slice(data_tuples, i, size), began)
    IN  /\ session' = sent
        /\ study_embeddings' = sent
        /\ tx_start' = began

\* one turn of "for i in range(0, len(data_tuples), chunk_size)": the chunk is
\* sent inside the transaction that stays open; NOW() is its start time
PgStep(size) ==
    LET began == IF tx_start = 0 THEN now ELSE tx_start
    IN  /\ session' = execute_values(session, Slice(data_tuples, i, size), began)
        /\ tx_start' = began
        /\ UNCHANGED study_embeddings

SqliteStepNoCommit(size) ==
    /\ session' = executemany(session, batch_data(i, size), now)
    /\ UNCHANGED <<study_embeddings, tx_start>>

\* one turn of "for i in range(0, total, batch_size)": executemany, then
\* conn.commit()
SqliteStep(size) ==
    LET sent == executemany(session, batch_data(i, size), now)
    IN  /\ session' = sent
        /\ study_embeddings' = sent
        /\ UNCHANGED tx_start

UploadChunk ==
    /\ pc = "upload"
    /\ i < Total
    /\ IF db_type = "postgres"
       THEN PgStep(chunk_size) /\ i' = i + chunk_size
       ELSE SqliteStep(args.upload_batch_size) /\ i' = i + args.upload_batch_size
    /\ UNCHANGED <<db_type, gwas_catalog, now, disk, pc, runs, args, exit_code, log,
                   studies, composite_keys, embeddings, pre, prev, failed>>

\* The statement of this chunk raises.  PostgreSQL: the statement has no
\* effect.  SQLite: the rows executemany got through before stay in the open
\* transaction (all of them when it is conn.commit() that raises).
UploadChunkFail ==
    /\ pc = "upload"
    /\ i < Total
    /\ IF db_type = "postgres"
       THEN UNCHANGED <<session, tx_start>>
       ELSE /\ \E done \in 0..Len(batch_data(i, args.upload_batch_size)) :
                 session' = executemany(session,
                               SubSeq(batch_data(i, args.upload_batch_size), 1, done), now)
            /\ UNCHANGED tx_start
    /\ pc' = "rollback"
    /\ UNCHANGED <<db_type, gwas_catalog, study_embeddings, now, disk, runs, args,
                   exit_code, log, studies, composite_keys, embeddings, i, pre, prev, failed>>

StoreDoneNoCommit ==
    /\ pc = "upload"
    /\ i >= Total
    /\ log' = Finished("ok")
    /\ Exit(0)
    /\ UNCHANGED <<db_type, gwas_catalog, study_embeddings, now, disk, runs, args,
                   studies, composite_keys, embeddings, i, pre, prev, failed>>

\* The loop is over.  PostgreSQL: conn.commit() makes the whole upload
\* visible.  Then main closes the connection and exits with status 0.
StoreDone ==
    /\ pc = "upload"
    /\ i >= Total
    /\ study_embeddings' = IF db_type = "postgres" THEN session ELSE study_embeddings
    /\ log' = Finished("ok")
    /\ pc' = "exited"
    /\ exit_code' = 0
    /\ session' = study_embeddings'
    /\ tx_start' = 0
    /\ UNCHANGED <<db_type, gwas_catalog, now, disk, runs, args, studies, composite_keys,
                   embeddings, i, pre, prev, failed>>

\* PostgreSQL: the final conn.commit() raises
CommitFail ==
    /\ pc = "upload"
    /\ i >= Total
    /\ db_type = "postgres"
    /\ pc' = "rollback"
    /\ UNCHANGED <<db_type, gwas_catalog, study_embeddings, session, tx_start, now, disk,
                   runs, args, exit_code, log, studies, composite_keys, embeddings, i,
                   pre, prev, failed>>

RollbackCommits ==
    /\ pc = "rollback"
    /\ log' = Finished("failed")
    /\ study_embeddings' = session
    /\ session' = session
    /\ tx_start' = 0
    /\ pc' = "exited"
    /\ exit_code' = 1
    /\ UNCHANGED <<db_type, gwas_catalog, now, disk, runs, args,
                   studies, composite_keys, embeddings, i, pre, prev, failed>>

\* except Exception: conn.rollback(); conn.close(); sys.exit(1)
Rollback ==
    /\ pc = "rollback"
    /\ log' = Finished("failed")
    /\ Exit(1)
    /\ UNCHANGED <<db_type, gwas_catalog, study_embeddings, now, disk, runs, args,
                   studies, composite_keys, embeddings, i, pre, prev, failed>>

Next ==
    \/ StartGenerate
    \/ StartRestore
    \/ LoadLocal
    \/ ConnectOk
    \/ ConnectFail
    \/ LoadModelOk
    \/ LoadModelFail
    \/ FetchOk
    \/ FetchFail
    \/ GenerateOk
    \/ GenerateFail
    \/ SkipSave
    \/ SaveWritten
    \/ SaveFail
    \/ StoreBegin
    \/ UploadChunk
    \/ UploadChunkFail
    \/ StoreDone
    \/ CommitFail
    \/ Rollback

Spec == Init /\ [][Next]_vars

\* ------------------------------------------------------ repeated invocation
\* The generate pipeline invoked again and again, without --save-local, for as
\* long as one likes: the count of invocations stops growing at MaxRuns, the
\* clock stands still and the previous run is not remembered (prev and failed
\* keep their initial values); everything else is as in StartRun(None).
Reinvoke ==
    /\ pc \in {"start", "exited"}
    /\ runs' = Min(runs + 1, MaxRuns)
    /\ args' = [NoArgs EXCEPT !.load_local = None]
    /\ pre' = study_embeddings
    /\ pc' = "connect"
    /\ exit_code' = -1
    /\ log' = <<>>
    /\ studies' = <<>>
    /\ composite_keys' = <<>>
    /\ embeddings' = <<>>
    /\ i' = 0
    /\ UNCHANGED <<db_type, gwas_catalog, study_embeddings, session, tx_start, now, disk,
                   prev, failed>>

LiveNext ==
    \/ Reinvoke
    \/ ConnectFail
    \/ ConnectOk
    \/ LoadModelFail
    \/ LoadModelOk
    \/ FetchFail
    \/ FetchOk
    \/ GenerateFail
    \/ GenerateOk
    \/ SkipSave
    \/ StoreBegin
    \/ UploadChunkFail
    \/ UploadChunk
    \/ CommitFail
    \/ StoreDone
    \/ Rollback

\* A started process runs on until it exits, and the script is invoked again
\* after every exit: some step is always taken.
LiveSpec == Init /\ [][LiveNext]_vars /\ WF_vars(LiveNext)

\* ================================================================== claims
\* What the formulas below read off a state.
LastStage == IF log = <<>> THEN <<"none", "none">> ELSE log[Len(log)]

StoreSucceeded == pc = "exited" /\ LastStage = <<"store", "ok">>
StoreFailed    == pc = "exited" /\ LastStage = <<"store", "failed">>

\* fetch_studies has just returned in this run (main goes on to vectorize, or
\* exits because nothing was found)
FetchReturned ==
    /\ LastStage = <<"fetch", "ok">>
    /\ pc \in {"generate", "exited"}

SameTriple(se, gc) ==
    /\ se.study_accession = gc.study_accession
    /\ se.snps = gc.snps
    /\ se.strongest_snp_risk_allele = gc.strongest_snp_risk_allele

HasEmbedding(gc) == \E se \in study_embeddings : SameTriple(se, gc)

Returned(gc, result) ==
    \E m \in 1..Len(result) :
        /\ result[m][1] = gc.study_accession
        /\ result[m][2] = gc.snps
        /\ result[m][3] = gc.strongest_snp_risk_allele
        /\ result[m][4] = combined_text(gc)

KeyReturned(k, result) ==
    \E m \in 1..Len(result) : <<result[m][1], result[m][2], result[m][3]>> = k

\* The pairs store_embeddings was given
Pairs == Zip(composite_keys, embeddings)

RowOf(table, k) == CHOOSE r \in table : KeyOf(r) = k

HasKey(table, k) == \E r \in table : KeyOf(r) = k

\* C1: when fetch_studies has returned, no catalog record whose triple
\* matches a study_embeddings row on all three fields is in its result, and
\* with no limit every catalog record whose triple matches no row is in it.
C1_AntiJoin ==
    FetchReturned =>
        \A n \in 1..Len(gwas_catalog) :
            /\ HasEmbedding(gwas_catalog[n]) => ~ Returned(gwas_catalog[n], studies)
            /\ (args.limit = 0 /\ ~ HasEmbedding(gwas_catalog[n]))
                   => Returned(gwas_catalog[n], studies)

\* three records, one of them embedded already and left out, one returned
C1_Witness ==
    /\ FetchReturned
    /\ args.limit = 0
    /\ Len(gwas_catalog) = 3
    /\ \E n \in 1..3 : HasEmbedding(gwas_catalog[n])
    /\ \E n \in 1..3 : Returned(gwas_catalog[n], studies)

\* C2 as stated: a generate run that follows a successful generate run and
\* succeeds itself leaves study_embeddings as the first run left it.
C2_Original ==
    (pc = "exited" /\ Mode = "generate" /\ exit_code = 0 /\ prev # NoRun)
        => study_embeddings = pre

\* C2 amended: a successful generate run that follows a successful generate
\* run made without --limit leaves study_embeddings exactly as the first run
\* left it, rows, vectors and timestamps.
C2_IdempotentWithoutLimit ==
    (pc = "exited" /\ Mode = "generate" /\ exit_code = 0 /\ prev = "generate")
        => study_embeddings = pre

\* the second run is over, the first one had stored rows of the catalog
C2_Witness ==
    /\ pc = "exited" /\ Mode = "generate" /\ exit_code = 0 /\ prev = "generate"
    /\ runs = 2
    /\ \E n \in 1..Len(gwas_catalog) :
           /\ HasEmbedding(gwas_catalog[n])
           /\ \A r \in study_embeddings : SameTriple(r, gwas_catalog[n]) => r.created_at > 0

FirstAt(k) == CHOOSE n \in 1..Len(Pairs) :
                  Pairs[n][1] = k /\ \A m \in 1..(n - 1) : Pairs[m][1] # k

LastAt(k) == CHOOSE n \in 1..Len(Pairs) :
                 Pairs[n][1] = k /\ \A m \in (n + 1)..Len(Pairs) : Pairs[m][1] # k

\* C3: after a successful store_embeddings, for every key it was given:
\* PostgreSQL holds the row the key had before the call, or else the vector of
\* the key's first pair; SQLite holds the vector of the key's last pair, with
\* updated_at set to the time of the write and, for a key that had a row
\* before the call, created_at as it was.
C3_ConflictPolicy ==
    StoreSucceeded =>
        \A n \in 1..Len(Pairs) :
            LET k == Pairs[n][1]
                r == RowOf(study_embeddings, k)
            IN  /\ HasKey(study_embeddings, k)
                /\ db_type = "postgres" =>
                      IF HasKey(pre, k)
                      THEN r = RowOf(pre, k)
                      ELSE r.embedding = json_dumps(Pairs[FirstAt(k)][2], <<",">>)
                /\ db_type = "sqlite" =>
                      /\ r.embedding = json_dumps(Pairs[LastAt(k)][2], <<",", " ">>)
                      /\ r.updated_at = now
                      /\ HasKey(pre, k) => r.created_at = RowOf(pre, k).created_at

\* SQLite overwrote the vector of a row that was there before the call and
\* kept the older created_at
C3_Witness ==
    /\ StoreSucceeded
    /\ db_type = "sqlite"
    /\ \E n \in 1..Len(Pairs) :
          LET k == Pairs[n][1]
          IN  /\ HasKey(pre, k)
              /\ RowOf(pre, k).embedding # RowOf(study_embeddings, k).embedding
              /\ RowOf(study_embeddings, k).created_at < RowOf(study_embeddings, k).updated_at

\* The pairs of the chunks sent before the chunk that starts at i
PairsBefore == SubSeq(Pairs, 1, Min(i, Len(Pairs)))

LastBefore(k) ==
    CHOOSE n \in 1..Len(PairsBefore) :
        PairsBefore[n][1] = k /\ \A m \in (n + 1)..Len(PairsBefore) : PairsBefore[m][1] # k

InPairsBefore(k) == \E n \in 1..Len(PairsBefore) : PairsBefore[n][1] = k

\* C4: on PostgreSQL the committed study_embeddings of a run is the table the
\* run started with in every state of the run, the states after a failed
\* chunk and after main's rollback included, whatever was sent before; only
\* the commit that ends a successful store_embeddings changes it.
C4_PostgresAllOrNothing ==
    (db_type = "postgres" /\ runs > 0 /\ ~ StoreSucceeded) => study_embeddings = pre

\* a chunk failed after an earlier chunk of the same run had been sent
C4_Witness ==
    /\ db_type = "postgres"
    /\ StoreFailed
    /\ i > 0
    /\ i < Len(Pairs)
    /\ \E n \in 1..i : ~ HasKey(pre, Pairs[n][1])

\* C5: on SQLite, after store_embeddings failed in the chunk that starts at i
\* and main rolled back, study_embeddings holds one row for every key of the
\* chunks before it, with the vector of the key's last pair in those chunks,
\* and is otherwise what it was before the run: nothing of the failed chunk or
\* of a later one is in it.
C5_SqlitePerChunk ==
    (db_type = "sqlite" /\ StoreFailed) =>
        /\ \A n \in 1..Len(PairsBefore) :
              LET k == PairsBefore[n][1]
              IN  /\ HasKey(study_embeddings, k)
                  /\ RowOf(study_embeddings, k).embedding
                         = json_dumps(PairsBefore[LastBefore(k)][2], <<",", " ">>)
        /\ \A r \in study_embeddings : InPairsBefore(KeyOf(r)) \/ r \in pre
        /\ \A r \in pre : InPairsBefore(KeyOf(r)) \/ r \in study_embeddings

\* a later chunk failed: the first chunk's key is stored, a key of the failed
\* chunk is not
C5_Witness ==
    /\ db_type = "sqlite"
    /\ StoreFailed
    /\ i > 0
    /\ \E n \in 1..i : ~ HasKey(pre, Pairs[n][1]) /\ HasKey(study_embeddings, Pairs[n][1])
    /\ \E n \in (i + 1)..Len(Pairs) : ~ HasKey(study_embeddings, Pairs[n][1])

\* C6: study_embeddings, committed or as the open connection sees it, never
\* holds two rows with the same (study_accession, snps,
\* strongest_snp_risk_allele).
C6_OneRowPerKey ==
    /\ \A r1, r2 \in study_embeddings : KeyOf(r1) = KeyOf(r2) => r1 = r2
    /\ \A r1, r2 \in session : KeyOf(r1) = KeyOf(r2) => r1 = r2

\* store_embeddings was given one key twice, with different vectors, and the
\* key has a row
C6_Witness ==
    /\ StoreSucceeded
    /\ \E n, m \in 1..Len(Pairs) :
          /\ n # m
          /\ Pairs[n][1] = Pairs[m][1]
          /\ Pairs[n][2] # Pairs[m][2]
          /\ HasKey(study_embeddings, Pairs[n][1])

\* C7: after a successful store_embeddings, fetch_studies on the same
\* database, with any limit, returns no record with the key of a pair that
\* was given to store_embeddings.
C7_StoredKeysNotFetched ==
    StoreSucceeded =>
        \A n \in 1..Len(Pairs) : \A limit \in 0..MaxLimit :
            ~ KeyReturned(Pairs[n][1], fetch_studies(gwas_catalog, study_embeddings, limit))

\* a generate run stored keys of the catalog, and another record of the
\* catalog is still to be fetched
C7_Witness ==
    /\ StoreSucceeded
    /\ Mode = "generate"
    /\ Len(Pairs) > 0
    /\ fetch_studies(gwas_catalog, study_embeddings, 0) # <<>>
    /\ fetch_studies(gwas_catalog, pre, 0) # fetch_studies(gwas_catalog, study_embeddings, 0)

\* The file a restore run was told to load, once the load has been tried
LoadTried == Mode = "restore" /\ log # <<>>

LoadedFile == disk[args.load_local]

Readable(file) ==
    Exists(file) /\ "embeddings" \in DOMAIN file /\ "dimensions" \in DOMAIN file

ThreeParts(key) == Len(split(key, "|")) = 3

\* C8 as stated: a readable file that has the current-schema arrays is
\* decoded from them, whether it has legacy keys or not.
C8_Original ==
    (LoadTried /\ Readable(LoadedFile) /\ "study_accessions" \in DOMAIN LoadedFile)
        => /\ log[1] = <<"load", "ok">>
           /\ composite_keys = Zip3(LoadedFile.study_accessions, LoadedFile.snps,
                                    LoadedFile.risk_alleles)

\* C8 amended: the loader looks for the legacy marker 'study_keys' first and
\* decodes the file from the legacy key strings whenever it is there (failing
\* when one of them is malformed); it uses the three current-schema arrays only
\* when 'study_keys' is absent, and fails with the invalid-format error when
\* neither is there.  A file with both markers is decoded from 'study_keys'.
C8_LegacyMarkerFirst ==
    (LoadTried /\ Readable(LoadedFile)) =>
        IF "study_keys" \in DOMAIN LoadedFile
        THEN IF \A n \in 1..Len(LoadedFile.study_keys) : ThreeParts(LoadedFile.study_keys[n])
             THEN /\ log[1] = <<"load", "ok">>
                  /\ Len(composite_keys) = Len(LoadedFile.study_keys)
                  /\ \A n \in 1..Len(composite_keys) :
                        composite_keys[n][1] \o PIPE \o composite_keys[n][2] \o PIPE
                            \o composite_keys[n][3] = LoadedFile.study_keys[n]
             ELSE log[1] = <<"load", "failed">> /\ pc = "exited" /\ exit_code = 1
        ELSE IF "study_accessions" \in DOMAIN LoadedFile
        THEN /\ log[1] = <<"load", "ok">>
             /\ composite_keys = Zip3(LoadedFile.study_accessions, LoadedFile.snps,
                                      LoadedFile.risk_alleles)
        ELSE /\ log[1] = <<"load", "failed">> /\ pc = "exited" /\ exit_code = 1
             /\ load_embeddings_from_file(LoadedFile).error = "ValueError: Invalid file format"

\* a file with both markers was loaded, and its keys are the legacy ones
C8_Witness ==
    /\ LoadTried
    /\ "study_keys" \in DOMAIN LoadedFile
    /\ "study_accessions" \in DOMAIN LoadedFile
    /\ log[1] = <<"load", "ok">>
    /\ composite_keys # Zip3(LoadedFile.study_accessions, LoadedFile.snps,
                             LoadedFile.risk_alleles)

CoreStages == {"load", "connect", "model", "fetch", "vectorize", "store"}

\* C9: a core stage that failed is the last stage the run started, and the
\* process has exited with a non-zero status; a process that exited with
\* status zero had no core stage fail.
C9_AbortOnFatal ==
    /\ \A n \in 1..Len(log) :
          (log[n][1] \in CoreStages /\ log[n][2] = "failed")
              => (n = Len(log) /\ pc = "exited" /\ exit_code > 0)
    /\ (pc = "exited" /\ exit_code = 0)
          => \A n \in 1..Len(log) : log[n][1] \in CoreStages => log[n][2] = "ok"

\* vectorization failed after connect, model load and fetch: exit 1, no store
C9_Witness ==
    /\ pc = "exited"
    /\ exit_code = 1
    /\ Len(log) = 4
    /\ LastStage = <<"vectorize", "failed">>

SaveFailedInRun == \E n \in 1..Len(log) : log[n] = <<"save", "failed">>

\* C10: once saving the local cache has failed, the run is at or past the
\* entry of store_embeddings, the keys and vectors are those that were
\* generated for the fetched studies, all of them, and a store that succeeds
\* ends the process with status zero.
C10_SaveFailureNotFatal ==
    SaveFailedInRun =>
        /\ pc = "store" \/ \E n \in 1..Len(log) : log[n][1] = "store"
        /\ Len(composite_keys) = Len(studies)
        /\ \A n \in 1..Len(studies) :
              composite_keys[n] = <<studies[n][1], studies[n][2], studies[n][3]>>
        /\ embeddings = generate_embeddings([n \in 1..Len(studies) |-> studies[n][4]],
                                            args.dimensions)
        /\ StoreSucceeded =>
              /\ exit_code = 0
              /\ \A n \in 1..Len(studies) :
                    HasKey(study_embeddings, <<studies[n][1], studies[n][2], studies[n][3]>>)

\* the save failed without writing anything, the store succeeded, exit 0
C10_Witness ==
    /\ SaveFailedInRun
    /\ ~ Exists(disk["backup.npz"])
    /\ StoreSucceeded
    /\ exit_code = 0
    /\ Len(studies) > 1

StageIn(stage) == \E n \in 1..Len(log) : log[n][1] = stage

StageFailed(stage) == \E n \in 1..Len(log) : log[n] = <<stage, "failed">>

\* C11: a generate run in which fetch_studies or generate_embeddings failed
\* has left study_embeddings as it was when the run started and never entered
\* store_embeddings; when it is the fetch that failed, generate_embeddings was
\* never called.
C11_NothingPersistedBeforeStore ==
    (StageFailed("fetch") \/ StageFailed("vectorize")) =>
        /\ study_embeddings = pre
        /\ session = pre
        /\ ~ StageIn("store")
        /\ StageFailed("fetch") => (~ StageIn("vectorize") /\ embeddings = <<>>)

\* vectorization failed for studies that were fetched and have no row
C11_Witness ==
    /\ pc = "exited"
    /\ exit_code = 1
    /\ StageFailed("vectorize")
    /\ Len(studies) > 1
    /\ \A n \in 1..Len(studies) :
          ~ HasKey(study_embeddings, <<studies[n][1], studies[n][2], studies[n][3]>>)

\* C12: every turn of the upload loop of store_embeddings advances by the
\* configured upload batch size b, on both backends, so that n pairs go out
\* in ceil(n/b) chunks of at most b rows.
C12_Original ==
    [][(pc = "upload" /\ i' # i) => i' = i + args.upload_batch_size]_vars

\* the step is save_embeddings_to_file(path, composite_keys, embeddings)
\* getting as far as writing the archive
SavedAt(path) ==
    /\ pc = "save"
    /\ disk' # disk
    /\ log' = Logged("save", IF Exists(disk'[path]) THEN "ok" ELSE "failed")

\* C13: after save_embeddings_to_file(path, composite_keys, embeddings),
\* load_embeddings_from_file(path) returns the same key triples and the same
\* vectors, in the same pairing, whatever the path.
C13_Original ==
    [][\A path \in SavePaths :
          SavedAt(path) =>
              load_embeddings_from_file(disk'[path]) = Loaded(composite_keys, embeddings)]_vars

LegacyTried == LoadTried /\ Readable(LoadedFile) /\ "study_keys" \in DOMAIN LoadedFile

\* the keys of the loaded legacy file that come before its n-th key split in three
GoodBefore(n) == \A m \in 1..(n - 1) : ThreeParts(LoadedFile.study_keys[m])

\* C14: loading a legacy file splits every key string on '|'; when each one
\* yields exactly three parts they are the returned triples, part by part and
\* in file order; otherwise the load raises the study_key format error naming
\* the first key string with fewer or more than three parts, no keys are
\* returned and the run ends with status 1 before the table is touched.
C14_LegacySplitInThree ==
    LegacyTried =>
        LET study_keys == LoadedFile.study_keys
            r == load_embeddings_from_file(LoadedFile)
        IN  IF \A n \in 1..Len(study_keys) : ThreeParts(study_keys[n])
            THEN /\ log[1] = <<"load", "ok">>
                 /\ composite_keys = [n \in 1..Len(study_keys) |-> split(study_keys[n], "|")]
            ELSE /\ log = <<<<"load", "failed">>>>
                 /\ pc = "exited" /\ exit_code = 1
                 /\ composite_keys = <<>> /\ embeddings = <<>>
                 /\ study_embeddings = pre
                 /\ r.error = "ValueError: Invalid study_key format"
                 /\ r.composite_keys = <<>>
                 /\ \E n \in 1..Len(study_keys) :
                       /\ r.about = study_keys[n]
                       /\ ~ ThreeParts(study_keys[n])
                       /\ GoodBefore(n)

\* a legacy file whose first malformed key has more than three parts, after a
\* well-formed one, was refused
C14_Witness ==
    /\ LegacyTried
    /\ log = <<<<"load", "failed">>>>
    /\ \E n \in 2..Len(LoadedFile.study_keys) :
          /\ Len(split(LoadedFile.study_keys[n], "|")) > 3
          /\ GoodBefore(n)

Vectorized == Mode = "generate" /\ \E n \in 1..Len(log) : log[n] = <<"vectorize", "ok">>

\* what model.encode returns for the n-th fetched study
ModelOutput(n) == encode(prefixed_text(studies[n][4]))

\* C15: generate_embeddings returns one vector per study; when --dimensions is
\* smaller than the native width each vector has that length and is, component
\* by component, the beginning of the model's output for that study; otherwise
\* it is the model's output unchanged.
C15_TruncationPrefix ==
    Vectorized =>
        /\ Len(embeddings) = Len(studies)
        /\ \A n \in 1..Len(embeddings) :
              IF args.dimensions < NativeDim
              THEN /\ Len(embeddings[n]) = args.dimensions
                   /\ \A j \in 1..args.dimensions : embeddings[n][j] = ModelOutput(n)[j]
              ELSE embeddings[n] = ModelOutput(n)

\* two studies were vectorized at fewer than the native number of dimensions
C15_Witness ==
    /\ Vectorized
    /\ args.dimensions < NativeDim
    /\ Len(embeddings) > 1
    /\ embeddings[1] # ModelOutput(1)

RestoreStages == {"load", "connect", "store"}

\* C16: a run given --load-local goes through load_embeddings_from_file, the
\* connection and store_embeddings only, in that order: at no point of the
\* run, however it ends, is it loading the model, in fetch_studies, in
\* generate_embeddings or saving, and it holds no fetched studies.
C16_RestoreSkipsSelectionAndVectorization ==
    Mode = "restore" =>
        /\ pc \in {"load", "connect", "store", "upload", "rollback", "exited"}
        /\ studies = <<>>
        /\ \A n \in 1..Len(log) : log[n][1] \in RestoreStages
        /\ \A n \in 1..Len(log) : (log[n][1] = "load") = (n = 1)
        /\ \A n \in 1..Len(log) : log[n][1] = "store" => n >= 3

\* one restore run has uploaded rows and ended well, after an earlier run
C16_Witness ==
    /\ Mode = "restore"
    /\ runs = MaxRuns
    /\ pc = "exited"
    /\ exit_code = 0
    /\ study_embeddings # pre

\* the table store_embeddings leaves on backend db when it is given this run's
\* pairs and the table this run started with, and does not fail
StoredOn(db) ==
    IF db = "postgres"
    THEN execute_values(pre, [n \in 1..Len(Pairs) |-> pg_tuple(Pairs[n])], now)
    ELSE executemany(pre, [n \in 1..Len(Pairs) |-> sqlite_tuple(Pairs[n])], now)

\* the vectors of this run whose JSON text, as backend db writes it, is what
\* the table holds for key k
VectorAt(table, db, k) ==
    {Pairs[n][2] : n \in {m \in 1..Len(Pairs) :
                             json_dumps(Pairs[m][2], ItemSep(db)) = RowOf(table, k).embedding}}

OtherBackend == IF db_type = "postgres" THEN "sqlite" ELSE "postgres"

\* C17: after a successful generate run, every key the run stored has in
\* study_embeddings the vector it would have had if the same run, from the
\* same catalog and the same table, had been made on the other backend.
C17_Original ==
    (Mode = "generate" /\ StoreSucceeded) =>
        \A n \in 1..Len(Pairs) :
            VectorAt(study_embeddings, db_type, Pairs[n][1])
                = VectorAt(StoredOn(OtherBackend), OtherBackend, Pairs[n][1])

\* this run is a generate run whose fetch_studies has returned, and the run
\* before it was a generate run that failed in store_embeddings
Resumed == FetchReturned /\ Mode = "generate" /\ failed # <<>>

\* the keys of the chunks the failed run had committed
CommittedByFailed ==
    LET f == failed[1]
    IN  {<<f.studies[n][1], f.studies[n][2], f.studies[n][3]>> :
            n \in 1..Min(f.committed, Len(f.studies))}

\* the records the failed run had fetched, without those of a committed key
LeftByFailed ==
    LET Left(s) == <<s[1], s[2], s[3]>> \notin CommittedByFailed
    IN  SelectSeq(failed[1].studies, Left)

\* C18 as stated: the run after a generate run that failed in the store stage
\* selects exactly the records the failed run had selected and not committed:
\* on SQLite those outside the committed chunks, on PostgreSQL all of them.
C18_Original ==
    Resumed =>
        /\ studies = LeftByFailed
        /\ db_type = "postgres" => studies = failed[1].studies

\* C18 amended: the same, when neither run is given a record limit.
C18_ResumeWithoutLimit ==
    (Resumed /\ args.limit = 0 /\ failed[1].limit = 0) =>
        /\ studies = LeftByFailed
        /\ db_type = "postgres" => studies = failed[1].studies

\* a run without --limit resumed an unlimited SQLite run that had committed a
\* chunk and left something to do
C18_Witness ==
    /\ Resumed
    /\ args.limit = 0
    /\ failed[1].limit = 0
    /\ db_type = "sqlite"
    /\ failed[1].committed > 0
    /\ studies # <<>>
    /\ studies # failed[1].studies

StudyKey(n) == <<studies[n][1], studies[n][2], studies[n][3]>>

\* the text study_embeddings holds when the vector of the n-th fetched record
\* is stored: its model output, cut to --dimensions, as this backend writes it
StoredText(n) ==
    json_dumps(truncate(ModelOutput(n), args.dimensions), ItemSep(db_type))

GenerateStored == Mode = "generate" /\ StoreSucceeded

\* C19 as stated: after a successful generate run the row of the key of the
\* n-th fetched record holds the embedding of the n-th record's text, for
\* every n.
C19_Original ==
    GenerateStored =>
        \A n \in 1..Len(studies) :
            /\ HasKey(study_embeddings, StudyKey(n))
            /\ RowOf(study_embeddings, StudyKey(n)).embedding = StoredText(n)

\* C19 amended: after a successful generate run the row of the key of the
\* n-th fetched record holds the embedding of the text of a fetched record
\* with that key: of the n-th record itself when no other fetched record has
\* its key.
C19_PairingPreserved ==
    GenerateStored =>
        \A n \in 1..Len(studies) :
            /\ HasKey(study_embeddings, StudyKey(n))
            /\ \E m \in 1..Len(studies) :
                  /\ StudyKey(m) = StudyKey(n)
                  /\ RowOf(study_embeddings, StudyKey(n)).embedding = StoredText(m)
            /\ (\A m \in 1..Len(studies) : StudyKey(m) = StudyKey(n) => m = n)
                  => RowOf(study_embeddings, StudyKey(n)).embedding = StoredText(n)

\* three records with three keys and three different vectors were stored in
\* more than one chunk
C19_Witness ==
    /\ GenerateStored
    /\ Len(studies) = 3
    /\ \A n, m \in 1..3 : n # m => (StudyKey(n) # StudyKey(m) /\ StoredText(n) # StoredText(m))
    /\ db_type = "sqlite"
    /\ args.upload_batch_size < 3

\* C20: a restore run that ended with status 0 has left a row in
\* study_embeddings for every key of the file it loaded, and one that failed
\* in load_embeddings_from_file has left the table as it was.
C20_Original ==
    /\ (Mode = "restore" /\ pc = "exited" /\ exit_code = 0) =>
          \A n \in 1..Len(composite_keys) : HasKey(study_embeddings, composite_keys[n])
    /\ (Mode = "restore" /\ pc = "exited" /\ LastStage = <<"load", "failed">>) =>
          (exit_code > 0 /\ study_embeddings = pre)

\* every catalog record has an embedding row
Complete == \A n \in 1..Len(gwas_catalog) : HasEmbedding(gwas_catalog[n])

\* a run has ended in failure
RunFailed == pc = "rollback" \/ (pc = "exited" /\ exit_code > 0)

\* the catalog is covered and the current run is one that connects, loads the
\* model, fetches nothing and exits with status 0: it never vectorizes and
\* never enters store_embeddings
Quiescent ==
    /\ Complete
    /\ pc \in {"connect", "model", "fetch", "exited"}
    /\ studies = <<>>
    /\ embeddings = <<>>
    /\ study_embeddings = pre
    /\ pc = "exited" => (exit_code = 0 /\ LastStage = <<"fetch", "ok">>)

\* C21: when the generate pipeline is invoked again and again on the same
\* catalog, with any record limit or none, and from some point on no run
\* fails, then from some point on every catalog record has an embedding row
\* and every run fetches nothing, vectorizes nothing, leaves study_embeddings
\* alone and exits with status 0, again and again.
C21_EventualCompletion ==
    (<>[](~ RunFailed)) => (<>[]Quiescent /\ []<>(Quiescent /\ pc = "exited"))

\* a run found nothing left to embed in a catalog of three records with three
\* keys, all of them embedded by earlier runs
C21_Witness ==
    /\ Quiescent
    /\ pc = "exited"
    /\ Len(gwas_catalog) = MaxCatalog
    /\ Cardinality({r \in study_embeddings : r.created_at > 0}) = MaxCatalog

====
